---- MODULE Spec2Model ----
(***************************************************************************)
(* mixin-migrate: one invocation drains a wallet's legacy balances,        *)
(* rotates its PIN to a TIP key, registers a safe spend key and drains the *)
(* safe UTXOs to a receiver (src/main.go, src/keystore.go).                *)
(*                                                                         *)
(* The program is one sequential process.  Every network call and every    *)
(* keystore write is one step; the process may die between any two steps   *)
(* and be invoked again.  The ledger (the Mixin API behind r.client) is    *)
(* the environment: its state is what the calls of main.go read and write. *)
(***************************************************************************)
EXTENDS Integers, Sequences, FiniteSets, TLC

(* ------------------------------ bounds --------------------------------- *)
\* Outputs the ledger ever credits to the wallet.
MaxOutputs == 3
\* Largest spend group count below the 256 boundary that a run is given.
MaxGroup == 2
\* opt.Limit of the listing (500 in main.go:214), scaled so that an
\* enumeration takes several pages.
Limit == 2

(* ---------------------------- constants -------------------------------- *)
\* main.go:35, the largest valid -group value.
MaxSpendGroupCount == 256

LegacyAssetIds == {"A", "B", "C"}
SafeAssetIds == {"X", "Y"}
Self == "self"
Users == {Self, "bob"}
\* The legacy balances of the wallet: none of A, some of B, more of C.
Balances == [A |-> 0, B |-> 1, C |-> 2]
\* Amounts do not steer the program: the output with sequence i holds i, so
\* that the sums of different groups differ.
AmountOf(i) == i

(* ------------------------------ secrets -------------------------------- *)
\* A keystore string is a six-digit PIN, an empty string, or the hex of a
\* private key; only the last parses (mixinnet.KeyFromString).
LegacyPin == [kind |-> "pin", id |-> 0]
Empty == [kind |-> "empty", id |-> 0]
KeyIds == 1..6
PrivateKey(n) == [kind |-> "key", id |-> n]

\* mixinnet.KeyFromString(s): err == nil
KeyFromString(s) == s.kind = "key"
\* key.Public()
Public(k) == [kind |-> "pub", id |-> k.id]
NoPublic == [kind |-> "none", id |-> 0]

Min(a, b) == IF a < b THEN a ELSE b

VARIABLES
    \* the ledger
    balances,      \* legacy balance of each asset
    transfers,     \* accepted legacy transfers, in order
    ledgerPin,     \* the credential the ledger verifies a pin against
    ledgerSpend,   \* the registered safe spend public key, NoPublic before
    outputs,       \* the wallet's safe outputs; the index is the sequence
    \* the keystore file
    disk,
    \* the process
    pc,
    group,         \* *spendGroupCount
    receiver,      \* r.receiver
    key,           \* r.key
    legacy,        \* migrateLegacyAssets: assets still to transfer
    newKey,        \* the key generated by the running rotation
    opt,           \* migrateSafeAssets: opt
    assets,        \* migrateSafeAssets: assets
    todo,          \* asset ids the range loop has not visited
    cur,           \* assetId of the running iteration
    idx,           \* idx of the group loop
    tx,            \* the transaction of the running group
    req,           \* the request of the running group
    \* history of the running invocation
    calls,         \* its calls, in order
    created,       \* the transaction requests it created, in order
    submitted,     \* its transactions the ledger accepted, in order
    listed         \* unspent sequences when its enumeration started

ledger == <<balances, transfers, ledgerPin, ledgerSpend, outputs>>
locals == <<legacy, newKey, opt, assets, todo, cur, idx, tx, req>>
history == <<calls, created, submitted, listed>>
vars == <<ledger, disk, pc, group, receiver, key, locals, history>>

NoKeystore == [Pin |-> Empty, SpendKey |-> Empty]
NoOpt == [Offset |-> 0, Limit |-> 0, State |-> ""]
NoTx == [inputs |-> <<>>, outputs |-> <<>>, hint |-> <<>>, signed |-> FALSE]
NoReq == [RequestID |-> <<>>, views |-> FALSE]
NoAssets == [a \in SafeAssetIds |-> <<>>]

\* How an invocation has ended: main returned, log.Fatalln in a phase, the
\* process died, or one of the checks before the first phase stopped it.
Rejected == {"no_receiver", "bad_group", "no_keystore", "no_user",
             "not_messenger", "receiver_is_self", "declined"}
Terminal == {"done", "failed", "crashed"} \cup Rejected

(* ------------------------------- Init ---------------------------------- *)
\* A wallet under legacy custody: a PIN, no spend key, no safe outputs.
Init ==
    /\ balances = Balances
    /\ transfers = <<>>
    /\ ledgerPin = LegacyPin
    /\ ledgerSpend = NoPublic
    /\ outputs = <<>>
    /\ disk = [Pin |-> LegacyPin, SpendKey |-> Empty]
    /\ pc = "start"
    /\ group = MaxSpendGroupCount
    /\ receiver = ""
    /\ key = NoKeystore
    /\ legacy = <<>>
    /\ newKey = Empty
    /\ opt = NoOpt
    /\ assets = NoAssets
    /\ todo = {}
    /\ cur = ""
    /\ idx = 0
    /\ tx = NoTx
    /\ req = NoReq
    /\ calls = <<>>
    /\ created = <<>>
    /\ submitted = <<>>
    /\ listed = {}

(* ------------------------------ ledger --------------------------------- *)
\* Whether the ledger verifies pin against its credential: a legacy PIN by
\* equality, a TIP credential by the private key of the registered public.
Accepts(cred, pin) ==
    IF cred.kind = "pin" THEN pin = cred
    ELSE KeyFromString(pin) /\ Public(pin) = cred

\* rand.Reader: a key no party holds yet.
InUse ==
    {s.id : s \in {ledgerPin, ledgerSpend, disk.Pin, disk.SpendKey,
                   key.Pin, key.SpendKey}}
GenerateKey ==
    PrivateKey(CHOOSE n \in KeyIds :
                   n \notin InUse /\ \A m \in KeyIds : m < n => m \in InUse)

\* The order in which ReadAssets lists the legacy assets.
LegacyOrder == <<"A", "B", "C">>
ReadAssets ==
    [i \in 1..Len(LegacyOrder) |->
        [AssetID |-> LegacyOrder[i], Balance |-> balances[LegacyOrder[i]]]]

(* ------------------------------ history -------------------------------- *)
\* A call of phase ph and how it ended: "ok", "error" when no answer came
\* (the network, the file system), "refused" when the ledger said no.
Call(ph, op, res) == [phase |-> ph, op |-> op, res |-> res]
Log(ph, op, res) == calls' = Append(calls, Call(ph, op, res))

(* ------------------------------- main ---------------------------------- *)
GroupInputs == (0..MaxGroup) \cup {MaxSpendGroupCount, MaxSpendGroupCount + 1}

\* What fetchUserInfo can return: a failure, or a user with an identity
\* number (0 when it is no messenger user).
Lookups == {[ok |-> FALSE, UserID |-> "", IdentityNumber |-> 0]}
           \cup [ok : {TRUE}, UserID : Users, IdentityNumber : 0..1]

\* main.go:29-65: the checks before the first phase, in order.  args: a
\* receiver argument is given; g: -group; loaded: loadKeystore and
\* NewFromKeystore succeed; user: the lookup; yes: the answer to the prompt.
PreambleSelfAllowed(args, g, loaded, user, yes) ==
    IF ~args THEN "no_receiver"
    ELSE IF g <= 0 \/ g > MaxSpendGroupCount THEN "bad_group"
    ELSE IF ~loaded THEN "no_keystore"
    ELSE IF ~user.ok THEN "no_user"
    ELSE IF user.IdentityNumber = 0 THEN "not_messenger"
    ELSE IF ~yes THEN "declined"
    ELSE "legacy"
Preamble(args, g, loaded, user, yes) ==
    IF ~args THEN "no_receiver"
    ELSE IF g <= 0 \/ g > MaxSpendGroupCount THEN "bad_group"
    ELSE IF ~loaded THEN "no_keystore"
    ELSE IF ~user.ok THEN "no_user"
    ELSE IF user.IdentityNumber = 0 THEN "not_messenger"
    ELSE IF user.UserID = Self THEN "receiver_is_self"
    ELSE IF ~yes THEN "declined"
    ELSE "legacy"

\* Every input of an invocation, and what the checks make of it.
Inputs == [args : BOOLEAN, g : GroupInputs, loaded : BOOLEAN, user : Lookups,
           yes : BOOLEAN]
Outcome(in) == Preamble(in.args, in.g, in.loaded, in.user, in.yes)
Exits == {Outcome(in) : in \in Inputs} \ {"legacy"}
Runs == {in \in Inputs : Outcome(in) = "legacy"}

\* A new process: nothing of an earlier invocation is in memory.
Fresh ==
    /\ legacy' = <<>>
    /\ newKey' = Empty
    /\ opt' = NoOpt
    /\ assets' = NoAssets
    /\ todo' = {}
    /\ cur' = ""
    /\ idx' = 0
    /\ tx' = NoTx
    /\ req' = NoReq
    /\ calls' = <<>>
    /\ created' = <<>>
    /\ submitted' = <<>>
    /\ listed' = {}

\* main.go:26-65: an invocation that ends before the first phase.
main_exit ==
    /\ pc \in {"start"} \cup Terminal
    /\ \E out \in Exits : pc' = out
    /\ group' = MaxSpendGroupCount
    /\ receiver' = ""
    /\ key' = NoKeystore
    /\ Fresh
    /\ UNCHANGED <<ledger, disk>>

\* main.go:26-74: an invocation that reaches the first phase, with the
\* keystore of the file in r.key.
main ==
    /\ pc \in {"start"} \cup Terminal
    /\ \E in \in Runs :
        /\ pc' = "legacy"
        /\ group' = in.g
        /\ receiver' = in.user.UserID
    /\ key' = disk
    /\ Fresh
    /\ UNCHANGED <<ledger, disk>>

\* What main does when a phase returned an error: log.Fatalln (main.go:74-88).
AfterPhaseErrorIgnored(next) == next
AfterPhaseError(next) == "failed"

\* The process dies between two steps (a kill, a lost terminal):
\* what it held in memory is gone, the ledger and the file stay.
crash ==
    /\ pc \notin {"start"} \cup Terminal
    /\ pc' = "crashed"
    /\ group' = MaxSpendGroupCount
    /\ receiver' = ""
    /\ key' = NoKeystore
    /\ Fresh
    /\ UNCHANGED <<ledger, disk>>

\* r.saveKeystore (main.go:98-113): the file is rewritten with k, or cannot
\* be opened or written and keeps what it held.
saveKeystoreNowhere(ph, k, ok) ==
    /\ disk' = disk
    /\ Log(ph, "saveKeystore", IF ok THEN "ok" ELSE "error")
saveKeystore(ph, k, ok) ==
    /\ disk' = IF ok THEN k ELSE disk
    /\ Log(ph, "saveKeystore", IF ok THEN "ok" ELSE "error")

(* ----------------------- migrateLegacyAssets --------------------------- *)
\* main.go:121-131: the listed assets with a non-zero balance, in order.
NonZeroAll(list) == list
NonZero(list) == SelectSeq(list, LAMBDA a : a.Balance # 0)

\* main.go:116-137
migrateLegacyAssets_ReadAssets ==
    /\ pc = "legacy"
    /\ \/ /\ Log(1, "ReadAssets", "error")
          /\ pc' = AfterPhaseError("tip")
          /\ UNCHANGED legacy
       \/ /\ Log(1, "ReadAssets", "ok")
          /\ legacy' = NonZero(ReadAssets)
          /\ pc' = IF Len(legacy') = 0 THEN "tip" ELSE "transfer"
    /\ UNCHANGED <<ledger, disk, group, receiver, key>>
    /\ UNCHANGED <<newKey, opt, assets, todo, cur, idx, tx, req>>
    /\ UNCHANGED <<created, submitted, listed>>

\* main.go:139-158: one iteration of the transfer loop.  The ledger moves
\* the amount when it verifies the pin and the balance covers it.
migrateLegacyAssets_Transfer ==
    /\ pc = "transfer"
    /\ LET asset == Head(legacy)
           t == [AssetID |-> asset.AssetID, OpponentID |-> receiver,
                 Amount |-> asset.Balance]
           valid == Accepts(ledgerPin, key.Pin) /\ balances[t.AssetID] >= t.Amount
       IN  \/ /\ Log(1, "Transfer", "error")
              /\ pc' = AfterPhaseError("tip")
              /\ UNCHANGED <<legacy, balances, transfers>>
           \/ /\ ~valid
              /\ Log(1, "Transfer", "refused")
              /\ pc' = AfterPhaseError("tip")
              /\ UNCHANGED <<legacy, balances, transfers>>
           \/ /\ valid
              /\ Log(1, "Transfer", "ok")
              /\ balances' = [balances EXCEPT ![t.AssetID] = @ - t.Amount]
              /\ transfers' = Append(transfers, t)
              /\ legacy' = Tail(legacy)
              /\ pc' = IF Len(legacy') = 0 THEN "tip" ELSE "transfer"
    /\ UNCHANGED <<ledgerPin, ledgerSpend, outputs>>
    /\ UNCHANGED <<disk, group, receiver, key>>
    /\ UNCHANGED <<newKey, opt, assets, todo, cur, idx, tx, req>>
    /\ UNCHANGED <<created, submitted, listed>>

(* --------------------------- updateTipPin ------------------------------ *)
\* main.go:162: the PIN is a TIP key already.
TipPinUpdatedNever(k) == FALSE
TipPinUpdated(k) == KeyFromString(k.Pin)

\* main.go:162-174: the check, the new key and the ModifyPin call, which the
\* ledger carries out when it verifies the old pin.
updateTipPin_ModifyPin ==
    /\ pc = "tip"
    /\ \/ /\ TipPinUpdated(key)
          /\ pc' = "safe"
          /\ UNCHANGED <<ledgerPin, newKey, calls>>
       \/ /\ ~TipPinUpdated(key)
          /\ Log(2, "ModifyPin", "error")
          /\ pc' = AfterPhaseError("safe")
          /\ UNCHANGED <<ledgerPin, newKey>>
       \/ /\ ~TipPinUpdated(key)
          /\ ~Accepts(ledgerPin, key.Pin)
          /\ Log(2, "ModifyPin", "refused")
          /\ pc' = AfterPhaseError("safe")
          /\ UNCHANGED <<ledgerPin, newKey>>
       \/ /\ ~TipPinUpdated(key)
          /\ Accepts(ledgerPin, key.Pin)
          /\ Log(2, "ModifyPin", "ok")
          /\ newKey' = GenerateKey
          /\ ledgerPin' = Public(newKey')
          /\ pc' = "tip_save"
    /\ UNCHANGED <<balances, transfers, ledgerSpend, outputs>>
    /\ UNCHANGED <<disk, group, receiver, key>>
    /\ UNCHANGED <<legacy, opt, assets, todo, cur, idx, tx, req>>
    /\ UNCHANGED <<created, submitted, listed>>

\* main.go:176-182
updateTipPin_save ==
    /\ pc = "tip_save"
    /\ key' = [key EXCEPT !.Pin = newKey]
    /\ \E ok \in BOOLEAN :
        /\ saveKeystore(2, key', ok)
        /\ pc' = IF ok THEN "safe" ELSE AfterPhaseError("safe")
    /\ UNCHANGED <<ledger, group, receiver, locals>>
    /\ UNCHANGED <<created, submitted, listed>>

(* --------------------------- migrateToSafe ----------------------------- *)
\* main.go:186: the spend key is there already.
SafeMigratedNever(k) == FALSE
SafeMigrated(k) == KeyFromString(k.SpendKey)

\* main.go:186-198: the check, the new spend key and the SafeMigrate call.
\* The ledger registers a safe once, for a user whose pin it verifies.
migrateToSafe_SafeMigrate ==
    /\ pc = "safe"
    /\ LET valid == Accepts(ledgerPin, key.Pin) /\ ledgerSpend = NoPublic
       IN  \/ /\ SafeMigrated(key)
              /\ pc' = "assets"
              /\ UNCHANGED <<ledgerSpend, newKey, calls>>
           \/ /\ ~SafeMigrated(key)
              /\ Log(3, "SafeMigrate", "error")
              /\ pc' = AfterPhaseError("assets")
              /\ UNCHANGED <<ledgerSpend, newKey>>
           \/ /\ ~SafeMigrated(key)
              /\ ~valid
              /\ Log(3, "SafeMigrate", "refused")
              /\ pc' = AfterPhaseError("assets")
              /\ UNCHANGED <<ledgerSpend, newKey>>
           \/ /\ ~SafeMigrated(key)
              /\ valid
              /\ Log(3, "SafeMigrate", "ok")
              /\ newKey' = GenerateKey
              /\ ledgerSpend' = Public(newKey')
              /\ pc' = "safe_save"
    /\ UNCHANGED <<balances, transfers, ledgerPin, outputs>>
    /\ UNCHANGED <<disk, group, receiver, key>>
    /\ UNCHANGED <<legacy, opt, assets, todo, cur, idx, tx, req>>
    /\ UNCHANGED <<created, submitted, listed>>

\* main.go:200-206
migrateToSafe_save ==
    /\ pc = "safe_save"
    /\ key' = [key EXCEPT !.SpendKey = newKey]
    /\ \E ok \in BOOLEAN :
        /\ saveKeystore(3, key', ok)
        /\ pc' = IF ok THEN "assets" ELSE AfterPhaseError("assets")
    /\ UNCHANGED <<ledger, group, receiver, locals>>
    /\ UNCHANGED <<created, submitted, listed>>

(* -------------------------- migrateSafeAssets -------------------------- *)
\* main.go:212-217
optAnyState == [Offset |-> 0, Limit |-> Limit, State |-> ""]
opt0 == [Offset |-> 0, Limit |-> Limit, State |-> "unspent"]

\* The *mixin.SafeUtxo of the output with sequence i.
Utxo(i) == [Sequence |-> i, AssetID |-> outputs[i].asset, Amount |-> outputs[i].amount]

\* The elements of a set of numbers in ascending order.
Ascending(S) ==
    [k \in 1..Cardinality(S) |-> CHOOSE i \in S : Cardinality({j \in S : j < i}) = k - 1]

Unspent == {i \in 1..Len(outputs) : outputs[i].state = "unspent"}

\* The ledger's answer to SafeListUtxos(o): the outputs from sequence
\* o.Offset on that are in state o.State, ascending, at most o.Limit.
SafeListUtxos(o) ==
    LET match == {i \in 1..Len(outputs) :
                     i >= o.Offset /\ (o.State = "" \/ outputs[i].state = o.State)}
        all == Ascending(match)
    IN  [k \in 1..Min(o.Limit, Len(all)) |-> Utxo(all[k])]

\* main.go:225
EndOfListShortPage(utxos) == Len(utxos) < Limit
EndOfList(utxos) == Len(utxos) = 0

\* main.go:230
NextOffsetSkip(utxo) == utxo.Sequence + 2
NextOffset(utxo) == utxo.Sequence + 1

\* main.go:229-232: the loop over one page, on the pair of opt and assets.
RECURSIVE Collect(_, _, _)
RECURSIVE CollectUngrouped(_, _, _)
CollectUngrouped(o, as, utxos) ==
    IF utxos = <<>> THEN [opt |-> o, assets |-> as]
    ELSE LET utxo == Head(utxos)
         IN  CollectUngrouped([o EXCEPT !.Offset = NextOffset(utxo)],
                              [as EXCEPT !["X"] = Append(@, utxo)],
                              Tail(utxos))
Collect(o, as, utxos) ==
    IF utxos = <<>> THEN [opt |-> o, assets |-> as]
    ELSE LET utxo == Head(utxos)
         IN  Collect([o EXCEPT !.Offset = NextOffset(utxo)],
                     [as EXCEPT ![utxo.AssetID] = Append(@, utxo)],
                     Tail(utxos))

\* main.go:308-314
RECURSIVE sumUtxos(_)
RECURSIVE sumUtxosButLast(_)
sumUtxosButLast(utxos) ==
    IF Len(utxos) <= 1 THEN 0
    ELSE Head(utxos).Amount + sumUtxosButLast(Tail(utxos))
sumUtxos(utxos) ==
    IF utxos = <<>> THEN 0 ELSE Head(utxos).Amount + sumUtxos(Tail(utxos))

\* main.go:256: utxos[idx:min(len(utxos), idx+*spendGroupCount)]
SpendsOverlap(utxos, i, n) ==
    SubSeq(utxos, Min(i + 1, Len(utxos)), Min(Len(utxos), i + n + 1))
Spends(utxos, i, n) == SubSeq(utxos, i + 1, Min(Len(utxos), i + n))

\* main.go:257, b.Hint: the request id of a builder, derived from its inputs.
Hint(spends) == [k \in 1..Len(spends) |-> spends[k].Sequence]

\* main.go:260-263
OutputToWallet(spends) ==
    [Address |-> [members |-> {Self}, threshold |-> 1], Amount |-> sumUtxos(spends)]
Output(spends) ==
    [Address |-> [members |-> {receiver}, threshold |-> 1], Amount |-> sumUtxos(spends)]

\* main.go:275-278: the request that creates the transaction request, under
\* the builder's hint.
CreateRequestInput(t) == [RequestID |-> t.hint, inputs |-> t.inputs]

\* main.go:293-296: the request that submits the signed transaction, under
\* the id of the created request r.
SubmitRequestInputNewID(r, t) ==
    [RequestID |-> <<0>> \o t.hint, inputs |-> t.inputs,
     outputs |-> t.outputs, signed |-> t.signed]
SubmitRequestInput(r, t) ==
    [RequestID |-> r.RequestID, inputs |-> t.inputs,
     outputs |-> t.outputs, signed |-> t.signed]

\* The sum of the Amount fields of a sequence, as the builder computes it.
RECURSIVE Total(_)
Total(seq) == IF seq = <<>> THEN 0 ELSE Head(seq).Amount + Total(Tail(seq))

\* main.go:265, client.MakeTransaction: the outputs asked for, and the
\* change back to the wallet when the inputs hold more.
MakeTransaction(spends, outs) ==
    LET total == Total(spends)
        paid == Total(outs)
        change == [Address |-> [members |-> {Self}, threshold |-> 1],
                   Amount |-> total - paid]
    IN  [inputs |-> spends,
         outputs |-> IF total > paid THEN Append(outs, change) ELSE outs,
         hint |-> Hint(spends),
         signed |-> FALSE]

\* main.go:266-297: a step of the pipeline that fails returns its error out
\* of both loops; next, the step that would have followed, is not taken.
StepErrorSkipped(next) == next
StepError(next) == AfterPhaseError("done")

\* main.go:210-217
migrateSafeAssets_enter ==
    /\ pc = "assets"
    /\ assets' = NoAssets
    /\ opt' = opt0
    /\ listed' = Unspent
    /\ pc' = "list"
    /\ UNCHANGED <<ledger, disk, group, receiver, key, calls, created, submitted>>
    /\ UNCHANGED <<legacy, newKey, todo, cur, idx, tx, req>>

\* main.go:219-245: one request of the enumeration; after the empty page
\* the check for assets and the parse of the spend key.
migrateSafeAssets_SafeListUtxos ==
    /\ pc = "list"
    /\ \/ /\ Log(4, "SafeListUtxos", "error")
          /\ pc' = AfterPhaseError("done")
          /\ UNCHANGED <<opt, assets, todo>>
       \/ /\ Log(4, "SafeListUtxos", "ok")
          /\ LET utxos == SafeListUtxos(opt)
                 next == Collect(opt, assets, utxos)
             IN  IF EndOfList(utxos)
                 THEN /\ UNCHANGED <<opt, assets>>
                      /\ todo' = {a \in SafeAssetIds : assets[a] # <<>>}
                      /\ pc' = IF todo' = {} THEN "done"
                               ELSE IF ~KeyFromString(key.SpendKey)
                                    THEN AfterPhaseError("done")
                               ELSE "asset"
                 ELSE /\ opt' = next.opt
                      /\ assets' = next.assets
                      /\ pc' = "list"
                      /\ UNCHANGED todo
    /\ UNCHANGED <<ledger, disk, group, receiver, key>>
    /\ UNCHANGED <<legacy, newKey, cur, idx, tx, req>>
    /\ UNCHANGED <<created, submitted, listed>>

\* main.go:247-255: the range loop takes an asset in any order and reads it.
migrateSafeAssets_SafeReadAsset ==
    /\ pc = "asset"
    /\ \E assetId \in todo :
        /\ cur' = assetId
        /\ \/ /\ Log(4, "SafeReadAsset", "error")
              /\ pc' = AfterPhaseError("done")
              /\ UNCHANGED <<todo, idx>>
           \/ /\ Log(4, "SafeReadAsset", "ok")
              /\ todo' = todo \ {assetId}
              /\ idx' = 0
              /\ pc' = "make"
    /\ UNCHANGED <<ledger, disk, group, receiver, key>>
    /\ UNCHANGED <<legacy, newKey, opt, assets, tx, req>>
    /\ UNCHANGED <<created, submitted, listed>>

\* main.go:256-273: the group, its output and the transaction; the build is
\* refused when the inputs hold less than the output asks.
migrateSafeAssets_MakeTransaction ==
    /\ pc = "make"
    /\ LET spends == Spends(assets[cur], idx, group)
           output == Output(spends)
           covered == Total(spends) >= output.Amount
       IN  \/ /\ Log(4, "MakeTransaction", "error")
              /\ pc' = StepError("create")
              /\ UNCHANGED tx
           \/ /\ ~covered
              /\ Log(4, "MakeTransaction", "refused")
              /\ pc' = StepError("create")
              /\ UNCHANGED tx
           \/ /\ covered
              /\ Log(4, "MakeTransaction", "ok")
              /\ tx' = MakeTransaction(spends, <<output>>)
              /\ pc' = "create"
    /\ UNCHANGED <<ledger, disk, group, receiver, key>>
    /\ UNCHANGED <<legacy, newKey, opt, assets, todo, cur, idx, req>>
    /\ UNCHANGED <<created, submitted, listed>>

\* main.go:275-282
migrateSafeAssets_SafeCreateTransactionRequest ==
    /\ pc = "create"
    /\ \/ /\ Log(4, "SafeCreateTransactionRequest", "error")
          /\ pc' = StepError("sign")
          /\ UNCHANGED <<created, req>>
       \/ /\ Log(4, "SafeCreateTransactionRequest", "ok")
          /\ created' = Append(created, CreateRequestInput(tx))
          /\ req' = [RequestID |-> CreateRequestInput(tx).RequestID, views |-> TRUE]
          /\ pc' = "sign"
    /\ UNCHANGED <<ledger, disk, group, receiver, key>>
    /\ UNCHANGED <<legacy, newKey, opt, assets, todo, cur, idx, tx>>
    /\ UNCHANGED <<submitted, listed>>

\* main.go:284-291
migrateSafeAssets_SafeSignTransaction ==
    /\ pc = "sign"
    /\ \/ /\ Log(4, "SafeSignTransaction", "error")
          /\ pc' = StepError("submit")
          /\ UNCHANGED tx
       \/ /\ Log(4, "SafeSignTransaction", "ok")
          /\ tx' = [tx EXCEPT !.signed = TRUE]
          /\ pc' = "submit"
    /\ UNCHANGED <<ledger, disk, group, receiver, key>>
    /\ UNCHANGED <<legacy, newKey, opt, assets, todo, cur, idx, req>>
    /\ UNCHANGED <<created, submitted, listed>>

\* The ledger's outputs once a transaction is accepted: its inputs are
\* spent, and each counts one more transaction that spent it.
Spend(outs, inputs) ==
    [i \in 1..Len(outs) |->
        IF \E k \in 1..Len(inputs) : inputs[k].Sequence = i
        THEN [outs[i] EXCEPT !.state = "spent", !.spends = @ + 1]
        ELSE outs[i]]

\* main.go:293-305: the submit, the step of the group loop, the next asset.
migrateSafeAssets_SafeSubmitTransactionRequest ==
    /\ pc = "submit"
    /\ \/ /\ Log(4, "SafeSubmitTransactionRequest", "error")
          /\ pc' = StepError("make")
          /\ UNCHANGED <<outputs, submitted, idx>>
       \/ /\ Log(4, "SafeSubmitTransactionRequest", "ok")
          /\ outputs' = Spend(outputs, tx.inputs)
          /\ submitted' = Append(submitted, SubmitRequestInput(req, tx))
          /\ idx' = idx + group
          /\ pc' = IF idx' < Len(assets[cur]) THEN "make"
                   ELSE IF todo # {} THEN "asset"
                   ELSE "done"
    /\ UNCHANGED <<balances, transfers, ledgerPin, ledgerSpend>>
    /\ UNCHANGED <<disk, group, receiver, key>>
    /\ UNCHANGED <<legacy, newKey, opt, assets, todo, cur, tx, req>>
    /\ UNCHANGED <<created, listed>>

(* ---------------------------- environment ------------------------------ *)
\* Someone pays the wallet: the ledger credits a new output, with the next
\* sequence.  Only a wallet registered with the safe has outputs.  The
\* program reads the outputs in its list requests alone, so a deposit at
\* another point of a run is the same as one before the next request or
\* after the run: those are the points where deposits are taken.
deposit ==
    /\ ledgerSpend # NoPublic
    /\ pc \in {"assets", "list"} \cup Terminal
    /\ Len(outputs) < MaxOutputs
    /\ \E a \in SafeAssetIds :
        outputs' = Append(outputs, [asset |-> a, amount |-> AmountOf(Len(outputs) + 1),
                                    state |-> "unspent", spends |-> 0])
    /\ UNCHANGED <<balances, transfers, ledgerPin, ledgerSpend>>
    /\ UNCHANGED <<disk, pc, group, receiver, key, locals, history>>

Next ==
    \/ main_exit
    \/ main
    \/ crash
    \/ migrateLegacyAssets_ReadAssets
    \/ migrateLegacyAssets_Transfer
    \/ updateTipPin_ModifyPin
    \/ updateTipPin_save
    \/ migrateToSafe_SafeMigrate
    \/ migrateToSafe_save
    \/ migrateSafeAssets_enter
    \/ migrateSafeAssets_SafeListUtxos
    \/ migrateSafeAssets_SafeReadAsset
    \/ migrateSafeAssets_MakeTransaction
    \/ migrateSafeAssets_SafeCreateTransactionRequest
    \/ migrateSafeAssets_SafeSignTransaction
    \/ migrateSafeAssets_SafeSubmitTransactionRequest
    \/ deposit

Spec == Init /\ [][Next]_vars

(* ------------------------------ properties ----------------------------- *)
Last(seq) == seq[Len(seq)]
Ceil(n, l) == (n + l - 1) \div l

\* The phase a position of the process belongs to.
PhaseOf(p) ==
    CASE p \in {"legacy", "transfer"} -> 1
      [] p \in {"tip", "tip_save"} -> 2
      [] p \in {"safe", "safe_save"} -> 3
      [] p \in {"assets", "list", "asset", "make", "create", "sign", "submit"} -> 4
      [] OTHER -> 5

Running == pc \notin {"start"} \cup Terminal

\* The calls of a run come phase by phase, and only the last can have
\* failed; the run has failed exactly when its last call did.
CallsInOrder ==
    /\ \A i, j \in 1..Len(calls) : i < j => calls[i].phase <= calls[j].phase
    /\ \A i \in 1..Len(calls) - 1 : calls[i].res = "ok"
    /\ Running => \A i \in 1..Len(calls) : calls[i].phase <= PhaseOf(pc)
    /\ (pc = "failed") <=> (calls # <<>> /\ Last(calls).res # "ok")
    /\ pc = "done" => \A i \in 1..Len(calls) : calls[i].res = "ok"

\* A step of a run stays in its phase, enters the next one or ends the run;
\* a call it makes belongs to the phase it is in; a run that has failed
\* makes no call and writes nothing.
PhaseStep ==
    /\ Running /\ pc' \notin Terminal => PhaseOf(pc') \in {PhaseOf(pc), PhaseOf(pc) + 1}
    /\ Running /\ pc' = "done" => PhaseOf(pc) = 4
    /\ Running /\ calls' # calls /\ pc' # "crashed" => Last(calls').phase = PhaseOf(pc)
    /\ pc = "failed" =>
          /\ UNCHANGED <<balances, transfers, ledgerPin, ledgerSpend, disk>>
          /\ calls' = calls \/ calls' = <<>>
          /\ \A i \in 1..Len(outputs) : outputs'[i] = outputs[i]

\* C1: the four phases run in the order legacy drain, PIN rotation, safe
\* activation, UTXO drain, and the failure of a call ends the run: no later
\* call of that phase or of a later phase is made and nothing is written.
C1_PhasesInOrder == [](CallsInOrder) /\ [][PhaseStep]_vars

\* A run whose legacy drain, rotation and activation worked and whose UTXO
\* drain failed.
C1_Witness ==
    /\ pc = "failed"
    /\ {calls[i].phase : i \in 1..Len(calls)} = 1..4

\* C2: in every state the PIN of the keystore file is the one the ledger
\* verifies, and when a safe is registered the spend key of the file is the
\* registered one.
C2_DurablyPersisted ==
    /\ Accepts(ledgerPin, disk.Pin)
    /\ ledgerSpend # NoPublic =>
          KeyFromString(disk.SpendKey) /\ Public(disk.SpendKey) = ledgerSpend

\* C4: over all runs no output is an input of more than one accepted
\* transaction.
C4_NoDoubleSpend == \A i \in 1..Len(outputs) : outputs[i].spends <= 1

\* A run that spends outputs after an earlier run, cut short, spent others.
C4_Witness ==
    /\ submitted # <<>>
    /\ \E i \in 1..Len(outputs) :
          /\ outputs[i].state = "spent"
          /\ \A n \in 1..Len(submitted) : \A k \in 1..Len(submitted[n].inputs) :
                submitted[n].inputs[k].Sequence # i

\* C5: updateTipPin entered with a PIN that parses as a key does nothing: no
\* key is generated, no ModifyPin call made, r.key and the file kept.
C5_TipPinNoOp ==
    [][pc = "tip" /\ KeyFromString(key.Pin) /\ pc' # "crashed" =>
          /\ pc' = "safe"
          /\ UNCHANGED <<key, newKey, disk, ledger, calls>>]_vars

\* A run past updateTipPin that made no call in it.
C5_Witness ==
    /\ pc = "safe"
    /\ KeyFromString(key.Pin)
    /\ \A i \in 1..Len(calls) : calls[i].phase # 2

\* C6: migrateToSafe entered with a spend key that parses makes no ledger
\* call, no keystore write, and keeps r.key.
C6_SafeNoOp ==
    [][pc = "safe" /\ KeyFromString(key.SpendKey) /\ pc' # "crashed" =>
          /\ pc' = "assets"
          /\ UNCHANGED <<key, newKey, disk, ledger, calls>>]_vars

\* A run past migrateToSafe that made no call in it.
C6_Witness ==
    /\ pc = "assets"
    /\ KeyFromString(key.SpendKey)
    /\ \A i \in 1..Len(calls) : calls[i].phase # 3

\* The sequences the enumeration has collected, and how many requests of
\* the listing this run has made.
Collected == UNION {{assets[a][k].Sequence : k \in 1..Len(assets[a])} : a \in SafeAssetIds}
ListCalls == Cardinality({i \in 1..Len(calls) : calls[i].op = "SafeListUtxos"})

\* The enumeration of this run is over: the empty page has come.
Enumerated == pc \in {"asset", "make", "create", "sign", "submit", "done"}
\* It is just over, and no group has been taken up yet.
JustEnumerated ==
    /\ pc \in {"asset", "done"}
    /\ calls # <<>>
    /\ Last(calls).op = "SafeListUtxos"
\* Nothing has arrived and nothing was spent since the enumeration began.
Quiet == Unspent = listed

\* The accepted transactions of this run that spend asset a, in order, and
\* their inputs one after the other.
GroupsOf(a) == SelectSeq(submitted, LAMBDA t : t.inputs # <<>> /\ t.inputs[1].AssetID = a)
RECURSIVE Flatten(_)
Flatten(txs) == IF txs = <<>> THEN <<>> ELSE Head(txs).inputs \o Flatten(Tail(txs))

\* C7: the N outputs of an asset are settled in ceil(N / L) groups, each
\* non-empty and of at most L members, all but the last of exactly L, whose
\* concatenation in order is the asset's sequence of outputs.
C7_Batching ==
    /\ \A n \in 1..Len(submitted) :
          Len(submitted[n].inputs) >= 1 /\ Len(submitted[n].inputs) <= group
    /\ pc \in {"create", "sign", "submit"} =>
          Len(tx.inputs) >= 1 /\ Len(tx.inputs) <= group
    /\ pc = "done" =>
          \A a \in SafeAssetIds :
              LET g == GroupsOf(a)
                  N == Len(assets[a])
              IN  /\ Len(g) = Ceil(N, group)
                  /\ Flatten(g) = assets[a]
                  /\ \A k \in 1..Len(g) - 1 : Len(g[k].inputs) = group

\* Three outputs of one asset settled in groups of two: sizes 2 and 1.
C7_Witness ==
    /\ pc = "done"
    /\ group = 2
    /\ \E a \in SafeAssetIds :
          /\ Len(assets[a]) = 3
          /\ Len(GroupsOf(a)) = 2
          /\ Len(GroupsOf(a)[2].inputs) = 1

\* C8 as claimed: an enumeration of M outputs during which nothing arrives
\* takes ceil(M / P) list requests, one when M = 0.
C8_CeilRequests ==
    JustEnumerated /\ Quiet =>
        ListCalls = IF listed = {} THEN 1 ELSE Ceil(Cardinality(listed), Limit)

\* C8, amended: it takes ceil(M / P) + 1 list requests, the last of which
\* returns the empty page that ends it (one request when M = 0).
C8_CeilPlusOneRequests ==
    JustEnumerated /\ Quiet => ListCalls = Ceil(Cardinality(listed), Limit) + 1

\* Three outputs listed in pages of two, and nothing arrived meanwhile.
C8_Witness ==
    /\ JustEnumerated
    /\ Quiet
    /\ Cardinality(listed) > Limit
    /\ ListCalls = 3

\* What the enumeration holds while it runs and after it.
VisitedOnce ==
    pc = "list" \/ Enumerated =>
        /\ \A a, b \in SafeAssetIds : \A i \in 1..Len(assets[a]), j \in 1..Len(assets[b]) :
              assets[a][i].Sequence = assets[b][j].Sequence => a = b /\ i = j
        /\ \A i \in Collected : i < opt.Offset /\ i \in 1..Len(outputs)
        /\ \A i \in listed : i < opt.Offset => i \in Collected
        /\ Enumerated => listed \subseteq Collected

\* C9: the enumeration collects every output that was unspent when it
\* began, and no output twice, also when outputs arrive between the page
\* requests; the cursor grows with every non-empty page.
C9_VisitsOnce ==
    /\ [](VisitedOnce)
    /\ [][pc = "list" /\ pc' = "list" /\ assets' # assets => opt'.Offset > opt.Offset]_vars

\* An enumeration of several pages during which an output arrived, which it
\* collected too.
C9_Witness ==
    /\ pc = "asset"
    /\ listed # {}
    /\ listed # Collected
    /\ ListCalls >= 3

\* The sum of the amounts the ledger holds for the inputs.
RECURSIVE InputAmount(_)
InputAmount(inputs) ==
    IF inputs = <<>> THEN 0
    ELSE outputs[Head(inputs).Sequence].amount + InputAmount(Tail(inputs))

\* A transaction has one output, to the receiver alone, of the sum of its
\* inputs: no fee, no change.
PaysAll(t) ==
    /\ Len(t.outputs) = 1
    /\ t.outputs[1].Address = [members |-> {receiver}, threshold |-> 1]
    /\ t.outputs[1].Amount = InputAmount(t.inputs)

\* C10: every transaction built for a spend group, and every one settled,
\* pays the exact sum of the group's inputs to the receiver in one output.
C10_SumInvariant ==
    /\ \A n \in 1..Len(submitted) : PaysAll(submitted[n])
    /\ pc \in {"create", "sign", "submit"} => PaysAll(tx)

\* A settled group of several inputs.
C10_Witness ==
    \E n \in 1..Len(submitted) :
        Len(submitted[n].inputs) >= 2 /\ PaysAll(submitted[n])

(* ----------------------------- convergence ----------------------------- *)
\* The process is always scheduled and the operator invokes the program
\* again whenever an invocation has ended.
FairSpec == Spec /\ WF_vars(Next)

\* A step in which something goes wrong outside the program: the process
\* dies, a call gets no answer or the file cannot be written, or the
\* invocation is turned down before the first phase.
FaultStep ==
    \/ pc' = "crashed"
    \/ pc' \in Rejected
    \/ calls' # calls /\ calls' # <<>> /\ Last(calls').res = "error"

\* The migrated state: no legacy balance, a TIP key in the file that the
\* ledger verifies, the registered spend key in the file, nothing unspent.
Migrated ==
    /\ \A a \in LegacyAssetIds : balances[a] = 0
    /\ KeyFromString(disk.Pin) /\ Accepts(ledgerPin, disk.Pin)
    /\ KeyFromString(disk.SpendKey) /\ Public(disk.SpendKey) = ledgerSpend
    /\ Unspent = {}

\* Short of a keystore file that has fallen behind the ledger, the
\* invocations do reach the migrated state.
ConvergesUnlessBehind ==
    []<><<FaultStep>>_vars \/ []<>Migrated \/ <>[](~C2_DurablyPersisted)

\* C3: when from some point on no process dies and every call is answered,
\* the invocations that follow reach the migrated state.
C3_Converges == []<><<FaultStep>>_vars \/ []<>Migrated

(* ---------------------------- legacy drain ----------------------------- *)
\* The accepted transfers of the running invocation: the ledger's last
\* ones, as many as the run has Transfer calls that worked.
TransferCalls == Cardinality({i \in 1..Len(calls) : calls[i].op = "Transfer" /\ calls[i].res = "ok"})
RunTransfers == SubSeq(transfers, Len(transfers) - TransferCalls + 1, Len(transfers))
EarlierTransfers == SubSeq(transfers, 1, Len(transfers) - TransferCalls)

\* What a sequence of transfers moved of asset a.
RECURSIVE Moved(_, _)
Moved(seq, a) ==
    IF seq = <<>> THEN 0
    ELSE (IF Head(seq).AssetID = a THEN Head(seq).Amount ELSE 0) + Moved(Tail(seq), a)

\* The balance of asset a that the listing of the running invocation showed.
ListedBalance(a) == Balances[a] - Moved(EarlierTransfers, a)

\* The legacy drain of this run has returned without an error.
Drained == (Running /\ PhaseOf(pc) >= 2) \/ pc = "done"

\* C11: no transfer is ever made for an asset listed with balance zero, and
\* a run whose legacy drain went through has made exactly one transfer for
\* every asset listed with a positive balance, of that balance, to the
\* receiver.
C11_PositiveBalancesOnce ==
    /\ \A i \in 1..Len(transfers) : transfers[i].Amount > 0
    /\ Drained =>
          \A a \in LegacyAssetIds :
              LET mine == SelectSeq(RunTransfers, LAMBDA t : t.AssetID = a)
              IN  IF ListedBalance(a) > 0
                  THEN /\ Len(mine) = 1
                       /\ mine[1].Amount = ListedBalance(a)
                       /\ mine[1].OpponentID = receiver
                  ELSE mine = <<>>

\* A drain of the balances (A, 0), (B, 1), (C, 2): two transfers, none of A.
C11_Witness ==
    /\ pc = "tip"
    /\ Len(RunTransfers) = 2
    /\ ListedBalance("A") = 0
    /\ \A i \in 1..Len(RunTransfers) : RunTransfers[i].AssetID # "A"

(* ----------------------------- validation ------------------------------ *)
\* An invocation that must not start: no receiver argument, a group count
\* outside 1..256, no loadable keystore, a receiver with identity number 0,
\* the wallet itself as receiver, or an operator who declines.
Defective(in) ==
    \/ ~in.args
    \/ in.g < 1 \/ in.g > MaxSpendGroupCount
    \/ ~in.loaded
    \/ in.user.ok /\ in.user.IdentityNumber = 0
    \/ in.user.ok /\ in.user.UserID = Self
    \/ ~in.yes
DefectsRejected == \A in \in Inputs : Defective(in) => Outcome(in) \in Rejected

\* A run that reached the phases was given a valid group count and a
\* receiver other than the wallet.
Validated == Running => group \in 1..MaxSpendGroupCount /\ receiver \in Users \ {Self}

\* C12: an invocation with a missing receiver, an invalid group count, an
\* unloadable keystore, a receiver of identity number 0, the wallet itself
\* as receiver or a declined prompt ends before the first phase, having
\* made no ledger call and no keystore write: every step of the program
\* into such an end leaves the ledger and the file as they were.
C12_NoMutationBeforeValidation ==
    /\ [](DefectsRejected /\ Validated)
    /\ [](pc \in Rejected => calls = <<>>)
    /\ [][pc' \in Rejected /\ ~deposit => UNCHANGED <<ledger, disk>>]_vars

\* An invocation the operator declined, with the wallet as it was.
C12_Witness ==
    /\ pc = "declined"
    /\ calls = <<>>
    /\ balances = Balances
    /\ disk = [Pin |-> LegacyPin, SpendKey |-> Empty]

(* ------------------------- transaction pipeline ------------------------ *)
\* C13: the n-th transaction a run submits goes under the request id under
\* which the run created the n-th transaction request, that of the same
\* spend group, and under the id of no other group.
C13_SameRequestId ==
    \A n \in 1..Len(submitted) :
        /\ n <= Len(created)
        /\ submitted[n].inputs = created[n].inputs
        /\ submitted[n].RequestID = created[n].RequestID
        /\ \A m \in 1..Len(created) :
              m # n => created[m].RequestID # submitted[n].RequestID

\* A run that has settled two spend groups.
C13_Witness ==
    /\ Len(submitted) >= 2
    /\ submitted[2].RequestID = created[2].RequestID

(* ------------------------------ rotation ------------------------------- *)
Rotations == {"ModifyPin", "SafeMigrate"}
\* The call just made by a step, if it made one.
Called(op) == calls' # calls /\ calls' # <<>> /\ Last(calls').op = op
LedgerCall == calls' # calls /\ calls' # <<>> /\ Last(calls').op # "saveKeystore"

\* In the calls of a run a rotation that worked is followed by the save of
\* its phase, or is the last call with the save as the next statement.
SaveFollows ==
    \A i \in 1..Len(calls) :
        calls[i].op \in Rotations /\ calls[i].res = "ok" =>
            IF i = Len(calls)
            THEN pc = (IF calls[i].op = "ModifyPin" THEN "tip_save" ELSE "safe_save")
            ELSE calls[i + 1].op = "saveKeystore" /\ calls[i + 1].phase = calls[i].phase

\* The step after a rotation puts the new secret into r.key and saves; the
\* run goes on with the file equal to r.key, or the save failed and it ends.
SaveStep ==
    pc \in {"tip_save", "safe_save"} /\ pc' # "crashed" =>
        /\ Called("saveKeystore")
        /\ IF pc = "tip_save" THEN key'.Pin = newKey ELSE key'.SpendKey = newKey
        /\ \/ Last(calls').res = "ok" /\ disk' = key' /\ pc' \notin Terminal
           \/ Last(calls').res # "ok" /\ pc' = "failed"

\* C14: a ModifyPin or SafeMigrate that worked is followed at once, with no
\* ledger call in between, by the new secret in r.key and a saveKeystore; a
\* failed save ends the run, so every ledger call is made with r.key equal
\* to the keystore file.
C14_SaveAtOnce ==
    /\ [](SaveFollows)
    /\ [][SaveStep]_vars
    /\ [][LedgerCall => key = disk]_vars

\* A run whose PIN rotation worked and whose save failed: r.key holds a key
\* the file does not, and the run has ended.
C14_Witness ==
    /\ pc = "failed"
    /\ Last(calls) = Call(2, "saveKeystore", "error")
    /\ key.Pin # disk.Pin

\* A step whose saveKeystore of phase ph returned without error.
Saved(ph) == Called("saveKeystore") /\ Last(calls').res = "ok" /\ Last(calls').phase = ph

\* Once the file holds a TIP key, neither the file's PIN nor the ledger's
\* credential changes again and no run calls ModifyPin; the one save that
\* completes the rotation is made on a file without a TIP key.
PinRotatedOnce ==
    /\ KeyFromString(disk.Pin) =>
          disk'.Pin = disk.Pin /\ ledgerPin' = ledgerPin /\ ~Called("ModifyPin")
    /\ Saved(2) => ~KeyFromString(disk.Pin) /\ KeyFromString(disk'.Pin)

\* The same for the spend key.
SpendKeyRotatedOnce ==
    /\ KeyFromString(disk.SpendKey) =>
          disk'.SpendKey = disk.SpendKey /\ ledgerSpend' = ledgerSpend /\ ~Called("SafeMigrate")
    /\ Saved(3) => ~KeyFromString(disk.SpendKey) /\ KeyFromString(disk'.SpendKey)

\* A run holds in r.key the secrets that earlier runs have saved.
LoadsRotated ==
    Running =>
        /\ KeyFromString(disk.Pin) => key.Pin = disk.Pin
        /\ KeyFromString(disk.SpendKey) => key.SpendKey = disk.SpendKey

\* C15: a rotation whose saveKeystore returned success is never lost: every
\* later run, after a crash at any point, loads the saved key, finds that it
\* parses and rotates that secret no second time, so that each secret has at
\* most one persisted rotation over all runs.
C15_CompletedPhaseKept ==
    /\ [](LoadsRotated)
    /\ [][PinRotatedOnce /\ SpendKeyRotatedOnce]_vars

\* A run that finds the TIP key of an earlier run, which ended before it
\* registered a safe, and skips the PIN rotation.
C15_Witness ==
    /\ pc = "safe"
    /\ KeyFromString(key.Pin)
    /\ ledgerSpend = NoPublic
    /\ \A i \in 1..Len(calls) : calls[i].phase # 2

(* --------------------------- pipeline order ---------------------------- *)
Pipeline == <<"MakeTransaction", "SafeCreateTransactionRequest",
              "SafeSignTransaction", "SafeSubmitTransactionRequest">>

\* The calls of a run, read as its pipeline: every step but the build comes
\* directly after the step before it, which worked; a build starts a group,
\* after the asset was read or the group before was submitted; a call that
\* did not work is the last call of the run, which has failed.
PipelineOrder ==
    \A i \in 1..Len(calls) :
        /\ \A k \in 2..4 :
              calls[i].op = Pipeline[k] =>
                  i > 1 /\ calls[i - 1] = Call(4, Pipeline[k - 1], "ok")
        /\ calls[i].op = Pipeline[1] =>
              /\ i > 1
              /\ calls[i - 1].res = "ok"
              /\ calls[i - 1].op \in {"SafeReadAsset", Pipeline[4]}
        /\ calls[i].res # "ok" => i = Len(calls) /\ pc = "failed"

\* What the ledger accepted is what the pipeline carried through: signed
\* transactions, one for every submit that worked.
SubmittedSigned ==
    /\ \A n \in 1..Len(submitted) : submitted[n].signed
    /\ Len(submitted) =
          Cardinality({i \in 1..Len(calls) : calls[i] = Call(4, Pipeline[4], "ok")})

\* C16: for every spend group the steps are build, create request, sign,
\* submit, each taken only after the one before it worked; once a step has
\* failed the run takes no further step, for that group, for a later group
\* or for another asset.
C16_PipelineOrder ==
    /\ [](PipelineOrder /\ SubmittedSigned)
    /\ [][pc = "failed" => calls' \in {calls, <<>>} /\ submitted' \in {submitted, <<>>}]_vars

\* A run that settled a group and failed to sign the next, with an asset
\* still to come.
C16_Witness ==
    /\ pc = "failed"
    /\ Last(calls).op = "SafeSignTransaction"
    /\ submitted # <<>>
    /\ todo # {}

(* ------------------------------ utxo drain ----------------------------- *)
\* In how many places output i is an input of a transaction this run has
\* submitted.
TimesSubmitted(i) ==
    Cardinality({p \in (1..Len(submitted)) \X (1..MaxOutputs) :
                    /\ p[2] <= Len(submitted[p[1]].inputs)
                    /\ submitted[p[1]].inputs[p[2]].Sequence = i})

SingleAsset(t) == \A j, k \in 1..Len(t.inputs) : t.inputs[j].AssetID = t.inputs[k].AssetID

\* The inputs of the transactions of asset a, group after group, are that
\* asset's outputs in ascending sequence.
InSequenceOrder(a) ==
    LET ins == Flatten(GroupsOf(a))
    IN  \A j, k \in 1..Len(ins) :
            /\ ins[j].AssetID = outputs[ins[j].Sequence].asset
            /\ j < k => ins[j].Sequence < ins[k].Sequence

BuildCalls == Cardinality({i \in 1..Len(calls) : calls[i].op = "MakeTransaction"})

\* C17: in a run of the UTXO drain without a failure every enumerated
\* output is an input of exactly one submitted transaction, the inputs of a
\* transaction are of one asset, an asset's outputs keep their ascending
\* sequence order within and across its groups, and one transaction is
\* submitted for every spend group.
C17_EachOutputOnce ==
    /\ \A n \in 1..Len(submitted) : SingleAsset(submitted[n])
    /\ \A a \in SafeAssetIds : InSequenceOrder(a)
    /\ \A i \in 1..Len(outputs) : TimesSubmitted(i) <= 1
    /\ pc = "done" =>
          /\ \A i \in Collected : TimesSubmitted(i) = 1
          /\ \A i \in 1..Len(outputs) : TimesSubmitted(i) = 1 => i \in Collected
          /\ Len(submitted) = BuildCalls
          /\ Len(submitted) = Len(created)

\* A finished run that settled outputs of both assets in several groups.
C17_Witness ==
    /\ pc = "done"
    /\ \A a \in SafeAssetIds : assets[a] # <<>>
    /\ Len(submitted) >= 2
    /\ \A i \in Collected : TimesSubmitted(i) = 1

(* -------------------------- legacy drain, re-run ----------------------- *)
\* The accepted transfers of asset a, over all runs.
TransfersOf(a) == {i \in 1..Len(transfers) : transfers[i].AssetID = a}

\* Over all runs an asset is transferred at most once, for its initial
\* balance, and the ledger's balance is what the transfers have left.
TransferredOnce ==
    \A a \in LegacyAssetIds :
        /\ Cardinality(TransfersOf(a)) <= 1
        /\ \A i \in TransfersOf(a) : transfers[i].Amount = Balances[a]
        /\ balances[a] = Balances[a] - Moved(transfers, a)

\* A run asks for a transfer only of an asset that no run has transferred.
SkipsTransferred ==
    pc = "transfer" /\ Called("Transfer") => TransfersOf(Head(legacy).AssetID) = {}

\* C18: over any sequence of runs, crashed and failed ones among them, a
\* re-run lists the balances again and leaves out every asset an earlier run
\* transferred, which now shows zero; each legacy asset's initial balance is
\* transferred at most once in total.
C18_DrainIdempotent == [](TransferredOnce) /\ [][SkipsTransferred]_vars

\* A re-run that finished the drain with one transfer, the other asset
\* having been transferred by an earlier run.
C18_Witness ==
    /\ pc = "tip"
    /\ Len(transfers) = 2
    /\ TransferCalls = 1

(* ----------------------------- asset order ----------------------------- *)
\* The spend groups of the enumerated outputs: of every asset, the slices
\* of group members of its list.
ExpectedGroups ==
    {SubSeq(assets[a], k * group + 1, Min(Len(assets[a]), (k + 1) * group)) :
        a \in SafeAssetIds, k \in 0..(MaxOutputs - 1)} \ {<<>>}

\* The transaction that settles a group: its members in, their amount out
\* to the receiver.
Settles(g) ==
    [inputs |-> g,
     outputs |-> <<[Address |-> [members |-> {receiver}, threshold |-> 1],
                    Amount |-> InputAmount(g)]>>]

Settled == {[inputs |-> submitted[n].inputs, outputs |-> submitted[n].outputs] :
               n \in 1..Len(submitted)}

\* C19: whatever the order in which the range loop takes the assets, a run
\* without a failure creates requests for the same set of spend groups and
\* submits the same set of transactions, which the enumerated outputs, the
\* group count and the receiver determine.
C19_OrderIrrelevant ==
    /\ Enumerated => Settled \subseteq {Settles(g) : g \in ExpectedGroups}
    /\ pc = "done" =>
          /\ {created[n].inputs : n \in 1..Len(created)} = ExpectedGroups
          /\ Settled = {Settles(g) : g \in ExpectedGroups}
          /\ Len(submitted) = Cardinality(ExpectedGroups)

\* A finished run that took asset Y before asset X, although X's outputs
\* come first in the enumeration.
C19_Witness ==
    /\ pc = "done"
    /\ Len(submitted) >= 2
    /\ submitted[1].inputs[1].AssetID = "Y"
    /\ Last(submitted).inputs[1].AssetID = "X"
    /\ assets["X"][1].Sequence < assets["Y"][1].Sequence

(* --------------------------- failed rotation --------------------------- *)
\* A step whose ModifyPin or SafeMigrate call returned an error.
RotationFailed ==
    \E op \in Rotations : Called(op) /\ Last(calls').res # "ok"

\* In the calls of a run a rotation that failed is the last call, and no
\* saveKeystore of its phase was made.
NoSaveAfterFailure ==
    \A i \in 1..Len(calls) :
        calls[i].op \in Rotations /\ calls[i].res # "ok" =>
            /\ i = Len(calls)
            /\ pc = "failed"
            /\ key = disk
            /\ \A j \in 1..Len(calls) :
                  calls[j].op = "saveKeystore" => calls[j].phase < calls[i].phase

\* C20: when the ModifyPin call of updateTipPin or the SafeMigrate call of
\* migrateToSafe returns an error, the phase returns it with the PIN and the
\* spend key of r.key unchanged and without a saveKeystore, so that the
\* keystore file is unchanged too.
C20_FailedRotationUntouched ==
    /\ [](NoSaveAfterFailure)
    /\ [][RotationFailed => pc' = "failed" /\ UNCHANGED <<key, disk, newKey>>]_vars

\* A run whose safe registration was refused or got no answer: no spend key
\* in r.key, none in the file.
C20_Witness ==
    /\ pc = "failed"
    /\ Last(calls).op = "SafeMigrate"
    /\ key.SpendKey = Empty
    /\ disk.SpendKey = Empty

====
